---- MODULE Spec2Model ----
(***************************************************************************)
(* Model of the MLB play-by-play pipeline:                                 *)
(*   src/b_get_mlb_pbp_data.py   the fetch-and-cache run                   *)
(*   src/c_get_mlb_pbp_stats.py  the compilation pass over cached games    *)
(***************************************************************************)
EXTENDS Integers, Sequences, FiniteSets, TLC

(***************************************************************************)
(* Program constants and model bounds                                      *)
(***************************************************************************)
MIN_VALID_FILE_SIZE == 2048

REQUIRED_SCHEDULE_COLUMNS == {"game_pk", "date", "home_team", "away_team"}

\* longest schedule explored
MaxGames == 3

\* file sizes explored around the validity threshold: threshold +/- MaxDelta
MaxDelta == 6

MIN_FILE_SIZE == 100

HOME_TEAM_COORD_X == 125

HOME_TEAM_COORD_Y == 199

\* most *.json files in the season directory
MaxFiles == 2

\* most plays read in one compilation pass
MaxPlays == 2

\* coordinates explored: the reference point plus or minus up to MaxSteps tens
MaxSteps == 10

\* most play events read in one compilation pass
MaxEvents == 2

(***************************************************************************)
(* The schedule rows (Game References) the model draws from.               *)
(* game_pk and date are kept as the CSV text that the loop converts.       *)
(***************************************************************************)
Rows ==
  { [game_pk |-> "1", date |-> "2024-04-01", home_team |-> "NYY", away_team |-> "BOS"],
    [game_pk |-> "2", date |-> "2024-04-02", home_team |-> "BOS", away_team |-> "NYY"],
    [game_pk |-> "3", date |-> "2025-03-30", home_team |-> "LAD", away_team |-> "SFG"],
    [game_pk |-> "x", date |-> "2024-04-03", home_team |-> "NYY", away_team |-> "LAD"],
    [game_pk |-> "4", date |-> "n/a",        home_team |-> "SFG", away_team |-> "BOS"] }

\* int(row.game_pk): defined on the integer texts only
IntCoercible(s) == s \in {"1", "2", "3", "4", "11"}

IntOf(s) ==
  CASE s = "1" -> 1 [] s = "2" -> 2 [] s = "3" -> 3 [] s = "4" -> 4 [] s = "11" -> 11

\* pd.to_datetime(row.date).year: defined on the parseable dates only
DateParseable(d) == d \in {"2024-04-01", "2024-04-02", "2024-04-03", "2025-03-30"}

YearOf(d) == IF d = "2025-03-30" THEN 2025 ELSE 2024

\* a row the loop can turn into (game_id, game_year)
WellFormed(row) == IntCoercible(row.game_pk) /\ DateParseable(row.date)

\* season_dir / f"GAMEPK_{game_id}_{home_team}_VS_{away_team}.json"
GameFile(row) ==
  [season |-> YearOf(row.date), id |-> IntOf(row.game_pk),
   home |-> row.home_team, away |-> row.away_team]

Paths == { GameFile(r) : r \in { q \in Rows : WellFormed(q) } }

(***************************************************************************)
(* A path of the cache directory.                                          *)
(*   kind  "absent": no such file; "file": a regular file;                 *)
(*         "error": stat fails with an errno pathlib does not ignore       *)
(*                  (EACCES, ENAMETOOLONG, EIO)                            *)
(*   size  bytes on disk                                                   *)
(*   whole the content is the complete document of a finished json.dump    *)
(***************************************************************************)
Absent == [kind |-> "absent", size |-> 0, whole |-> FALSE]

Unstattable == [kind |-> "error", size |-> 0, whole |-> FALSE]

WholeFile(n) == [kind |-> "file", size |-> n, whole |-> TRUE]

PartFile(n) == [kind |-> "file", size |-> n, whole |-> FALSE]

\* document sizes the remote source returns: one at the threshold, one above
DocSizes == {MIN_VALID_FILE_SIZE, MIN_VALID_FILE_SIZE + 2}

\* sizes a file passes through while json.dump is flushing a document of d bytes
ChunkSizes(d) == { s \in {MIN_VALID_FILE_SIZE, MIN_VALID_FILE_SIZE + 1} : s < d }

(***************************************************************************)
(* _is_valid_cache(cache_file), lines 212-230.                             *)
(* raced: the file vanished between exists() and stat() (stat raises       *)
(* inside the try block).  Result: "true", "false" or "raise".             *)
(***************************************************************************)
\* Path.exists(): False for a missing path, raises for a non-ignored errno
PathExists(f) ==
  CASE f.kind = "absent" -> "false"
    [] f.kind = "error"  -> "raise"
    [] OTHER             -> "true"

SizeCheck_Mut(size) == size >= MIN_VALID_FILE_SIZE

\* file_size > MIN_VALID_FILE_SIZE (line 227)
SizeCheck(size) == size > MIN_VALID_FILE_SIZE

IsValidCache(f, gone) ==
  CASE PathExists(f) = "raise" -> "raise"
    [] PathExists(f) = "false" -> "false"
    [] gone                    -> "false"
    [] OTHER                   -> IF SizeCheck(f.size) THEN "true" ELSE "false"

(***************************************************************************)
(* State                                                                   *)
(***************************************************************************)
VARIABLES
  schedule,      \* the rows _process_games iterates, in input order
  forceRefresh,  \* force_refresh
  files,         \* the cache directory: path -> file
  seasonDirs,    \* season_dirs: the years whose directory this run has made
  i,             \* position of the loop in the schedule (1-based)
  pc,            \* where the run is
  doc,           \* size of the document the remote call returned (0: none)
  cached,        \* cached_count
  skipped,       \* skipped_count
  run,           \* 1: first run, 2: second run over the same schedule
  calls,         \* remote calls made in this run
  writes,        \* files opened for writing in this run
  sleeps,        \* time.sleep calls in this run
  lastCall,      \* what followed the latest remote call of this run
  warnings,      \* rows that ended in the except branch in this run
  lastError,     \* what raised in the latest such row
  saveErrors,    \* _save_game_pbp failures in this run
  validAtStart,  \* rows that had a valid artifact when this run started
  validAtTurn,   \* rows that had a valid artifact at their turn, force_refresh off
  fetchedSaved,  \* rows whose remote call and cache write both succeeded
  prior,         \* the file at the row's path when the row went to the remote call
  columns,       \* columns of the schedule CSV
  csvExists,     \* the schedule CSV is on disk
  loadResult,    \* outcome of _load_and_validate_schedule
  loadMissing,   \* the columns its error message names
  query,         \* the input handed to the function under check
  raced,         \* the file vanishes between exists() and stat()
  answer,        \* what the function returned
  folder,        \* what folder_path / season_year is: "missing", "file" or "dir"
  nFiles,        \* number of *.json files the glob finds
  cpc,           \* where compile_play_events is
  fileNo,        \* the file being processed (1-based position in json_files)
  playNo,        \* the play being processed (1-based position in allplays)
  homeId,        \* home_id of the file being processed
  constants,     \* constants of the play being processed
  data,          \* the list of Hit Event Records
  nEvents,       \* play events read so far
  nPlays,        \* plays read so far
  nNotInPlay,    \* play events read whose in-play flag was not set
  nNoCoords,     \* in-play events read that lacked a coordinate
  failedFiles,   \* files whose processing raised
  cacheDir,      \* the *.json artifacts of the season directory, in glob order
  qualifying     \* per file: events read with the in-play flag and both coordinates

fetchVars ==
  <<schedule, forceRefresh, files, seasonDirs, i, pc, doc, cached, skipped, run,
    calls, writes, sleeps, lastCall, warnings, lastError, saveErrors,
    validAtStart, validAtTurn, fetchedSaved, prior>>

loadVars == <<columns, csvExists, loadResult, loadMissing>>

cacheVars == <<query, raced, answer>>

compVars ==
  <<folder, nFiles, cpc, fileNo, playNo, homeId, constants, data, nEvents, nPlays,
    nNotInPlay, nNoCoords, failedFiles, cacheDir, qualifying>>

vars == <<fetchVars, loadVars, cacheVars, compVars>>

\* the artifact invariant of the data model: exists and larger than the threshold
HasValidArtifact(f) == f.kind = "file" /\ f.size > MIN_VALID_FILE_SIZE

NumValid(sched, fs) ==
  Cardinality({ k \in 1..Len(sched) :
                  WellFormed(sched[k]) /\ HasValidArtifact(fs[GameFile(sched[k])]) })

\* sequences of distinct rows, at most MaxGames long
Schedules ==
  { s \in UNION { [1..n -> Rows] : n \in 0..MaxGames } :
      \A a, b \in DOMAIN s : a # b => s[a] # s[b] }

ScheduledPaths(sched) ==
  { GameFile(sched[k]) : k \in { j \in 1..Len(sched) : WellFormed(sched[j]) } }

\* what earlier runs can have left at a path
InitFiles == {Absent, Unstattable} \cup { WholeFile(n) : n \in DocSizes }

IdleLoad == columns = {} /\ csvExists = FALSE /\ loadResult = "idle" /\ loadMissing = {}

IdleCache == query = Absent /\ raced = FALSE /\ answer = "idle"

\* no play entered yet
NoConstants == [play |-> "none"]

IdleCompile ==
  /\ folder = "dir"
  /\ nFiles = 0
  /\ cpc = "idle"
  /\ fileNo = 0
  /\ playNo = 0
  /\ homeId = "None"
  /\ constants = NoConstants
  /\ data = <<>>
  /\ nEvents = 0
  /\ nPlays = 0
  /\ nNotInPlay = 0
  /\ nNoCoords = 0
  /\ failedFiles = {}
  /\ cacheDir = <<>>
  /\ qualifying = <<>>

RunStart(sched, fs) ==
  /\ seasonDirs = {}
  /\ i = 1
  /\ doc = 0
  /\ cached = 0
  /\ skipped = 0
  /\ calls = 0
  /\ writes = 0
  /\ sleeps = 0
  /\ lastCall = "none"
  /\ warnings = 0
  /\ lastError = "none"
  /\ saveErrors = 0
  /\ validAtStart = NumValid(sched, fs)
  /\ validAtTurn = 0
  /\ fetchedSaved = 0
  /\ prior = Absent

\* _process_games is entered with a validated schedule
Init ==
  /\ schedule \in Schedules
  /\ forceRefresh \in BOOLEAN
  /\ files \in { fs \in [Paths -> InitFiles \cup {WholeFile(MIN_VALID_FILE_SIZE + 2)}] :
                   \A p \in Paths \ ScheduledPaths(schedule) :
                      fs[p] = WholeFile(MIN_VALID_FILE_SIZE + 2) }
  /\ pc = "loop"
  /\ run = 1
  /\ RunStart(schedule, files)
  /\ IdleLoad
  /\ IdleCache
  /\ IdleCompile

(***************************************************************************)
(* _process_games, lines 159-209: one iteration of the loop is             *)
(*   ProcessRow, then FetchGame, SaveOpen, Dump..., Sleep                  *)
(* Every exception of an iteration lands in the except branch (205-207).   *)
(***************************************************************************)
Row == schedule[i]

\* the exception leaves the loop instead of being caught
LogAndContinue_Mut(what) ==
  /\ warnings' = warnings + 1
  /\ lastError' = what
  /\ i' = i
  /\ pc' = "raised"

\* except Exception: logger.warning(...); continue   (lines 205-207)
LogAndContinue(what) ==
  /\ warnings' = warnings + 1
  /\ lastError' = what
  /\ i' = i + 1
  /\ pc' = "loop"

\* skipped_count += 1 (line 187)
CountSkipped(n) == n + 1

CountCached_Mut(n) == n

\* cached_count += 1 (line 198)
CountCached(n) == n + 1

\* lines 170-171 raise for a malformed row
RowMalformed ==
  /\ ~WellFormed(Row)
  /\ LogAndContinue(IF IntCoercible(Row.game_pk) THEN "date" ELSE "game_pk")
  /\ UNCHANGED <<schedule, forceRefresh, files, seasonDirs, doc, cached, skipped, run,
                 calls, writes, sleeps, lastCall, saveErrors, validAtStart,
                 validAtTurn, fetchedSaved,
                 prior>>

ShouldSkip_Mut(force, f) == force /\ IsValidCache(f, FALSE) = "true"

\* the cached file is skipped: lines 186-191
\* (_is_valid_cache is not called when force_refresh is on)
ShouldSkip(force, f) == ~force /\ IsValidCache(f, FALSE) = "true"

\* _is_valid_cache raises out of line 186
CheckRaises(force, f) == ~force /\ IsValidCache(f, FALSE) = "raise"

\* lines 170-191 for a well-formed row
RowChecked ==
  /\ WellFormed(Row)
  /\ seasonDirs' = seasonDirs \cup {YearOf(Row.date)}
  /\ validAtTurn' = IF ~forceRefresh /\ HasValidArtifact(files[GameFile(Row)])
                    THEN validAtTurn + 1 ELSE validAtTurn
  /\ \/ /\ ShouldSkip(forceRefresh, files[GameFile(Row)])
        /\ skipped' = CountSkipped(skipped)
        /\ i' = i + 1
        /\ pc' = "loop"
        /\ UNCHANGED <<warnings, lastError, prior>>
     \/ /\ CheckRaises(forceRefresh, files[GameFile(Row)])
        /\ LogAndContinue("stat")
        /\ UNCHANGED <<skipped, prior>>
     \/ /\ ~ShouldSkip(forceRefresh, files[GameFile(Row)])
        /\ ~CheckRaises(forceRefresh, files[GameFile(Row)])
        /\ pc' = "fetch"
        /\ prior' = files[GameFile(Row)]
        /\ UNCHANGED <<i, skipped, warnings, lastError>>
  /\ UNCHANGED <<schedule, forceRefresh, files, doc, cached, run, calls, writes,
                 sleeps, lastCall, saveErrors, validAtStart, fetchedSaved>>

ProcessRow ==
  /\ pc = "loop"
  /\ i <= Len(schedule)
  /\ (RowMalformed \/ RowChecked)
  /\ UNCHANGED <<loadVars, cacheVars, compVars>>

\* _fetch_game_pbp (233-253) called at line 194: the remote call fails, or
\* returns a document of d bytes once serialised
FetchGame ==
  /\ pc = "fetch"
  /\ calls' = calls + 1
  /\ \/ /\ LogAndContinue("fetch")
        /\ lastCall' = "failed"
        /\ prior' = Absent
        /\ UNCHANGED doc
     \/ /\ \E d \in DocSizes : doc' = d
        /\ lastCall' = "fetched"
        /\ pc' = "save"
        /\ UNCHANGED <<i, warnings, lastError, prior>>
  /\ UNCHANGED <<schedule, forceRefresh, files, seasonDirs, cached, skipped, run,
                 writes, sleeps, saveErrors, validAtStart, validAtTurn, fetchedSaved>>
  /\ UNCHANGED <<loadVars, cacheVars, compVars>>

\* _save_game_pbp re-raises (271-273) into the except branch of the loop
SaveFails(what) ==
  /\ LogAndContinue(what)
  /\ saveErrors' = saveErrors + 1
  /\ lastCall' = "failed"
  /\ doc' = 0
  /\ prior' = Absent

\* open(output_file, "w"), line 268: raises, or leaves the file empty
SaveOpen ==
  /\ pc = "save"
  /\ \/ /\ SaveFails("open")
        /\ UNCHANGED <<files, writes>>
     \/ /\ files[GameFile(Row)].kind # "error"
        /\ files' = [files EXCEPT ![GameFile(Row)] = PartFile(0)]
        /\ writes' = writes + 1
        /\ pc' = "dump"
        /\ UNCHANGED <<i, doc, warnings, lastError, saveErrors, lastCall, prior>>
  /\ UNCHANGED <<schedule, forceRefresh, seasonDirs, cached, skipped, run, calls,
                 sleeps, validAtStart, validAtTurn, fetchedSaved>>
  /\ UNCHANGED <<loadVars, cacheVars, compVars>>

\* json.dump(game_data, f, indent=2), line 269: part of the document reaches the disk
DumpChunk ==
  /\ pc = "dump"
  /\ \E s \in ChunkSizes(doc) :
        /\ s > files[GameFile(Row)].size
        /\ files' = [files EXCEPT ![GameFile(Row)] = PartFile(s)]
  /\ UNCHANGED <<schedule, forceRefresh, seasonDirs, i, pc, doc, cached, skipped, run,
                 calls, writes, sleeps, lastCall, warnings, lastError, saveErrors,
                 validAtStart, validAtTurn, fetchedSaved,
                 prior>>
  /\ UNCHANGED <<loadVars, cacheVars, compVars>>

\* json.dump or the closing flush raises (disk full, unserialisable value):
\* the file keeps what was written
DumpFails ==
  /\ pc = "dump"
  /\ SaveFails("dump")
  /\ UNCHANGED <<schedule, forceRefresh, files, seasonDirs, cached, skipped, run,
                 calls, writes, sleeps, validAtStart, validAtTurn, fetchedSaved>>
  /\ UNCHANGED <<loadVars, cacheVars, compVars>>

\* the with block ends: the whole document is on disk; line 198 counts the game
DumpDone ==
  /\ pc = "dump"
  /\ files' = [files EXCEPT ![GameFile(Row)] = WholeFile(doc)]
  /\ cached' = CountCached(cached)
  /\ fetchedSaved' = fetchedSaved + 1
  /\ lastCall' = "saved"
  /\ doc' = 0
  /\ pc' = "sleep"
  /\ UNCHANGED <<schedule, forceRefresh, seasonDirs, i, skipped, run, calls, writes,
                 sleeps, warnings, lastError, saveErrors, validAtStart, validAtTurn,
                 prior>>
  /\ UNCHANGED <<loadVars, cacheVars, compVars>>

\* the pause is left out
Sleep_Mut ==
  /\ pc = "sleep"
  /\ i' = i + 1
  /\ pc' = "loop"
  /\ prior' = Absent
  /\ UNCHANGED <<schedule, forceRefresh, files, seasonDirs, doc, cached, skipped, run,
                 calls, writes, sleeps, lastCall, warnings, lastError, saveErrors,
                 validAtStart, validAtTurn, fetchedSaved>>
  /\ UNCHANGED <<loadVars, cacheVars, compVars>>

\* time.sleep(rate_limit_delay), line 201, then the next row
Sleep ==
  /\ pc = "sleep"
  /\ sleeps' = sleeps + 1
  /\ lastCall' = "slept"
  /\ i' = i + 1
  /\ pc' = "loop"
  /\ prior' = Absent
  /\ UNCHANGED <<schedule, forceRefresh, files, seasonDirs, doc, cached, skipped, run,
                 calls, writes, warnings, lastError, saveErrors, validAtStart,
                 validAtTurn, fetchedSaved>>
  /\ UNCHANGED <<loadVars, cacheVars, compVars>>

\* return cached_count, skipped_count (line 209)
Return ==
  /\ pc = "loop"
  /\ i > Len(schedule)
  /\ pc' = "done"
  /\ UNCHANGED <<schedule, forceRefresh, files, seasonDirs, i, doc, cached, skipped,
                 run, calls, writes, sleeps, lastCall, warnings, lastError, saveErrors,
                 validAtStart, validAtTurn, fetchedSaved,
                 prior>>
  /\ UNCHANGED <<loadVars, cacheVars, compVars>>

\* _process_games is run again with force_refresh=False over the same schedule
SecondRun ==
  /\ pc = "done"
  /\ run = 1
  /\ ~forceRefresh
  /\ run' = 2
  /\ pc' = "loop"
  /\ seasonDirs' = {}
  /\ i' = 1
  /\ doc' = 0
  /\ cached' = 0
  /\ skipped' = 0
  /\ calls' = 0
  /\ writes' = 0
  /\ sleeps' = 0
  /\ lastCall' = "none"
  /\ warnings' = 0
  /\ lastError' = "none"
  /\ saveErrors' = 0
  /\ validAtStart' = NumValid(schedule, files)
  /\ validAtTurn' = 0
  /\ fetchedSaved' = 0
  /\ prior' = Absent
  /\ UNCHANGED <<schedule, forceRefresh, files>>
  /\ UNCHANGED <<loadVars, cacheVars, compVars>>

Next ==
  \/ ProcessRow
  \/ FetchGame
  \/ SaveOpen
  \/ DumpChunk
  \/ DumpFails
  \/ DumpDone
  \/ Sleep
  \/ Return
  \/ SecondRun

Spec == Init /\ [][Next]_vars

(***************************************************************************)
(* External interruption (process termination) of a run, and the later     *)
(* run with force_refresh=False that resumes it.                           *)
(***************************************************************************)
Interrupt ==
  /\ pc \in {"loop", "fetch", "save", "dump", "sleep"}
  /\ pc' = "killed"
  /\ UNCHANGED <<schedule, forceRefresh, files, seasonDirs, i, doc, cached, skipped,
                 run, calls, writes, sleeps, lastCall, warnings, lastError, saveErrors,
                 validAtStart, validAtTurn, fetchedSaved,
                 prior>>
  /\ UNCHANGED <<loadVars, cacheVars, compVars>>

Resume ==
  /\ pc = "killed"
  /\ run = 1
  /\ run' = 2
  /\ forceRefresh' = FALSE
  /\ pc' = "loop"
  /\ seasonDirs' = {}
  /\ i' = 1
  /\ doc' = 0
  /\ cached' = 0
  /\ skipped' = 0
  /\ calls' = 0
  /\ writes' = 0
  /\ sleeps' = 0
  /\ lastCall' = "none"
  /\ warnings' = 0
  /\ lastError' = "none"
  /\ saveErrors' = 0
  /\ validAtStart' = NumValid(schedule, files)
  /\ validAtTurn' = 0
  /\ fetchedSaved' = 0
  /\ prior' = Absent
  /\ UNCHANGED <<schedule, files>>
  /\ UNCHANGED <<loadVars, cacheVars, compVars>>

NextInterrupt == Next \/ Interrupt \/ Resume

SpecInterrupt == Init /\ [][NextInterrupt]_vars

(***************************************************************************)
(* _is_valid_cache as a function of the file it is handed                  *)
(***************************************************************************)
CacheSizes == (MIN_VALID_FILE_SIZE - MaxDelta)..(MIN_VALID_FILE_SIZE + MaxDelta)

CacheInputs ==
  {Absent, Unstattable} \cup { WholeFile(n) : n \in CacheSizes }
                        \cup { PartFile(n) : n \in CacheSizes }

IdleFetch ==
  /\ schedule = <<>>
  /\ forceRefresh = FALSE
  /\ files = [p \in Paths |-> Absent]
  /\ pc = "idle"
  /\ run = 1
  /\ RunStart(schedule, files)

InitCache ==
  /\ query \in CacheInputs
  /\ raced \in BOOLEAN
  /\ answer = "pending"
  /\ IdleFetch
  /\ IdleLoad
  /\ IdleCompile

CheckCache ==
  /\ answer = "pending"
  /\ answer' = IsValidCache(query, raced)
  /\ UNCHANGED <<query, raced, fetchVars, loadVars, compVars>>

SpecCache == InitCache /\ [][CheckCache]_vars

(***************************************************************************)
(* get_mlb_pbp_data, lines 56-93, with _load_and_validate_schedule         *)
(***************************************************************************)
ScheduleColumns ==
  {"game_pk", "date", "home_team", "away_team", "home_id", "away_id"}

\* schedule.dropna(subset=[...], inplace=True), line 121: pandas raises KeyError
\* for the labels of the subset that are no column
DropnaSubset == {"game_pk", "home_id", "away_id"}

\* REQUIRED_SCHEDULE_COLUMNS - set(schedule.columns), line 128
MissingColumns(cols) == REQUIRED_SCHEDULE_COLUMNS \ cols

\* lines 110-136: <<outcome, columns the message names>>
LoadAndValidateSchedule(exists, cols) ==
  CASE ~exists                      -> <<"FileNotFoundError", {}>>
    [] DropnaSubset \ cols # {}     -> <<"KeyError", DropnaSubset \ cols>>
    [] MissingColumns(cols) # {}    -> <<"ValueError", MissingColumns(cols)>>
    [] OTHER                        -> <<"ok", {}>>

InitLoad ==
  /\ columns \in SUBSET ScheduleColumns
  /\ csvExists \in BOOLEAN
  /\ loadResult = "pending"
  /\ loadMissing = {}
  /\ schedule = << [game_pk |-> "1", date |-> "2024-04-01", home_team |-> "NYY", away_team |-> "BOS"],
                   [game_pk |-> "x", date |-> "2024-04-03", home_team |-> "NYY", away_team |-> "LAD"],
                   [game_pk |-> "3", date |-> "2025-03-30", home_team |-> "LAD", away_team |-> "SFG"] >>
  /\ forceRefresh = FALSE
  /\ files \in { fs \in [Paths -> {Absent, Unstattable, WholeFile(MIN_VALID_FILE_SIZE + 2)}] :
                   fs[GameFile(schedule[3])] = Unstattable }
  /\ pc = "start"
  /\ run = 1
  /\ RunStart(schedule, files)
  /\ IdleCache
  /\ IdleCompile

\* line 61 raises (the except branches 85-93 log and re-raise), or lines 63-78
\* go on to _process_games
GetMlbPbpData ==
  /\ pc = "start"
  /\ loadResult' = LoadAndValidateSchedule(csvExists, columns)[1]
  /\ loadMissing' = LoadAndValidateSchedule(csvExists, columns)[2]
  /\ pc' = IF loadResult' = "ok" THEN "loop" ELSE "raised"
  /\ UNCHANGED <<schedule, forceRefresh, files, seasonDirs, i, doc, cached, skipped,
                 run, calls, writes, sleeps, lastCall, warnings, lastError, saveErrors,
                 validAtStart, validAtTurn, fetchedSaved, prior>>
  /\ UNCHANGED <<columns, csvExists, cacheVars, compVars>>

NextLoad == GetMlbPbpData \/ Next

SpecLoad == InitLoad /\ [][NextLoad]_vars

(***************************************************************************)
(* Claims about the fetch run                                              *)
(***************************************************************************)

\* C1 as stated: for every schedule, the second run with force_refresh=False
\* makes no remote call and no cache write and reports every game as skipped.
C1_SecondRunAllSkipped ==
  (run = 2 /\ pc = "done") =>
     /\ calls = 0
     /\ writes = 0
     /\ skipped = Len(schedule)
     /\ cached = 0

\* C1 amended: the second run with force_refresh=False skips exactly the games
\* whose artifact was valid when the first run ended and makes remote calls and
\* cache writes only for the other games; when the first run left a valid
\* artifact for every game, the second run makes no remote call and no cache
\* write and reports every game as skipped.
C1_SecondRunSkipsValid ==
  (run = 2 /\ pc = "done") =>
     /\ skipped = validAtStart
     /\ calls <= Len(schedule) - validAtStart
     /\ writes <= calls
     /\ cached <= writes
     /\ (validAtStart = Len(schedule) =>
           calls = 0 /\ writes = 0 /\ cached = 0 /\ skipped = Len(schedule))

C1_Witness ==
  /\ run = 2
  /\ pc = "done"
  /\ Len(schedule) = MaxGames
  /\ validAtStart = Len(schedule)
  /\ skipped = Len(schedule)
  /\ calls = 0

\* C2: after a run is interrupted, every artifact that _is_valid_cache accepts
\* holds the complete document of a finished write.
C2_ValidAfterInterruptIsWhole ==
  pc = "killed" =>
     \A p \in Paths : IsValidCache(files[p], FALSE) = "true" => files[p].whole

\* C5: skipped_count is the number of games that had a valid artifact at their
\* turn with force_refresh off, cached_count is the number of games whose remote
\* call and cache write both succeeded, cached + skipped never exceeds the
\* number of games, and a schedule of 3 games of which exactly 1 has a valid
\* artifact, run without force_refresh and without a failure, ends (2, 1).
C5_RunCounters ==
  /\ skipped = validAtTurn
  /\ cached = fetchedSaved
  /\ cached + skipped <= Len(schedule)
  /\ (/\ pc = "done"
      /\ Len(schedule) = 3
      /\ ~forceRefresh
      /\ validAtStart = 1
      /\ warnings = 0) => (cached = 2 /\ skipped = 1)

C5_Witness ==
  /\ pc = "done"
  /\ Len(schedule) = 3
  /\ ~forceRefresh
  /\ validAtStart = 1
  /\ warnings = 0
  /\ cached = 2
  /\ skipped = 1

C7_WriteFailureIsFatal == pc = "done" => saveErrors = 0

C3_ValidIffLargeAndFailsClosed ==
  answer # "pending" =>
     /\ answer # "raise"
     /\ (answer = "true") <=>
          (query.kind = "file" /\ ~raced /\ query.size > MIN_VALID_FILE_SIZE)
     /\ (query.kind = "error" \/ raced) => answer = "false"

C9_ValidationNamesMissing ==
  (loadResult # "pending" /\ csvExists) =>
     /\ (loadResult = "ok") <=> (REQUIRED_SCHEDULE_COLUMNS \subseteq columns)
     /\ (loadResult # "ok") =>
          /\ loadResult = "ValueError"
          /\ loadMissing = REQUIRED_SCHEDULE_COLUMNS \ columns
          /\ calls = 0
          /\ writes = 0

(***************************************************************************)
(* The compilation pass, src/c_get_mlb_pbp_stats.py.                       *)
(* JSON values are [t, v]: t is "absent" (no such key), "null", "num" (the *)
(* number v) or "str" (a text that is no number).                          *)
(***************************************************************************)
JAbsent == [t |-> "absent", v |-> 0]

JNull == [t |-> "null", v |-> 0]

JNum(n) == [t |-> "num", v |-> n]

JStr == [t |-> "str", v |-> 0]

\* a play event: details, hitdata and coordinates are "absent", "null" or "dict";
\* isinplay is "absent", "null", "true" or "false"
Ev(d, flag, h, c, x, y) ==
  [kind |-> "event", details |-> d, isinplay |-> flag, hitdata |-> h,
   coordinates |-> c, coordx |-> x, coordy |-> y]

Events ==
  { Ev("dict", "true", "dict", "dict", JNum(150), JNum(175)),
    Ev("dict", "false", "dict", "dict", JNum(150), JNum(175)),
    Ev("dict", "absent", "dict", "dict", JNum(150), JNum(175)),
    Ev("dict", "null", "dict", "dict", JNum(150), JNum(175)),
    Ev("absent", "absent", "dict", "dict", JNum(150), JNum(175)),
    Ev("null", "absent", "dict", "dict", JNum(150), JNum(175)),
    Ev("dict", "true", "dict", "dict", JNull, JNum(175)),
    Ev("dict", "true", "dict", "dict", JNum(150), JNull),
    Ev("dict", "true", "dict", "dict", JAbsent, JNum(175)),
    Ev("dict", "true", "dict", "dict", JNum(150), JAbsent),
    Ev("dict", "true", "dict", "absent", JAbsent, JAbsent),
    Ev("dict", "true", "absent", "absent", JAbsent, JAbsent),
    Ev("dict", "true", "dict", "null", JAbsent, JAbsent),
    Ev("dict", "true", "null", "absent", JAbsent, JAbsent),
    Ev("dict", "true", "dict", "dict", JStr, JNum(175)),
    Ev("dict", "false", "absent", "absent", JAbsent, JAbsent) }

\* the play event has its in-play flag set and both coordinates present, non-null
Qualifies(e) ==
  /\ e.details = "dict"
  /\ e.isinplay = "true"
  /\ e.hitdata = "dict"
  /\ e.coordinates = "dict"
  /\ e.coordx.t \notin {"absent", "null"}
  /\ e.coordy.t \notin {"absent", "null"}

\* event.get("details", {}).get("isinplay"), line 160: "true", "false" or "raise"
\* (None has no .get when details is null)
IsInPlay(e) ==
  CASE e.details = "null"   -> "raise"
    [] e.details = "absent" -> "false"
    [] OTHER                -> IF e.isinplay = "true" THEN "true" ELSE "false"

CoordMissing_Mut(x, y) == x.t \in {"absent", "null"}

\* coordx is None or coordy is None, line 238
CoordMissing(x, y) == x.t \in {"absent", "null"} \/ y.t \in {"absent", "null"}

(***************************************************************************)
(* The geometry of lines 242-245 on whole-number coordinates.  An angle is  *)
(* a closed range of degrees [lo, hi]: lo = hi for the multiples of 45,     *)
(* which atan2 and the conversion to degrees give exactly, and otherwise    *)
(* the octant that holds it.  A distance is the whole part of the square    *)
(* root and whether the root is that whole number.                          *)
(***************************************************************************)
Deg(lo, hi) == [lo |-> lo, hi |-> hi]

\* np.degrees(np.arctan2(y, x)), line 244 (called with y = delta_x, x = delta_y)
Arctan2Degrees(y, x) ==
  CASE y = 0 /\ x >= 0 -> Deg(0, 0)
    [] y = 0 /\ x < 0 -> Deg(180, 180)
    [] y > 0 /\ x = 0 -> Deg(90, 90)
    [] y < 0 /\ x = 0 -> Deg(-90, -90)
    [] y > 0 /\ x > 0 -> IF y = x THEN Deg(45, 45)
                         ELSE IF y < x THEN Deg(0, 45) ELSE Deg(45, 90)
    [] y > 0 /\ x < 0 -> IF y = -x THEN Deg(135, 135)
                         ELSE IF y < -x THEN Deg(135, 180) ELSE Deg(90, 135)
    [] y < 0 /\ x > 0 -> IF -y = x THEN Deg(-45, -45)
                         ELSE IF -y < x THEN Deg(-45, 0) ELSE Deg(-90, -45)
    [] OTHER -> IF y = x THEN Deg(-135, -135)
                ELSE IF -y < -x THEN Deg(-180, -135) ELSE Deg(-135, -90)

\* the whole part of the square root of n > 0, by Newton's iteration from r
RECURSIVE NewtonSqrt(_, _)
NewtonSqrt(n, r) ==
  LET q == (r + n \div r) \div 2 IN IF q >= r THEN r ELSE NewtonSqrt(n, q)

FloorSqrt(n) == IF n = 0 THEN 0 ELSE NewtonSqrt(n, n)

\* math.sqrt(delta_x**2 + delta_y**2), line 245
Sqrt(n) == [whole |-> FloorSqrt(n), exact |-> FloorSqrt(n) * FloorSqrt(n) = n]

\* get_spray_sector of MLB_CODE.statcast_utils: a pure function of the angle
GetSpraySector(angle) == <<"sector", angle.lo, angle.hi>>

\* delta_x and delta_y, lines 242-243
Delta(x, y) == <<x.v - HOME_TEAM_COORD_X, y.v - HOME_TEAM_COORD_Y>>

\* the arguments in the conventional order: the angle from the horizontal axis
SprayAngle_Mut(x, y) == Arctan2Degrees(Delta(x, y)[2], Delta(x, y)[1])

\* spray_angle, line 244
SprayAngle(x, y) == Arctan2Degrees(Delta(x, y)[1], Delta(x, y)[2])

\* hit_distance, line 245
HitDistance(x, y) ==
  Sqrt(Delta(x, y)[1] * Delta(x, y)[1] + Delta(x, y)[2] * Delta(x, y)[2])

\* the hit fields of the row, lines 249-264 (the fields copied unchanged from
\* count and hitdata are left out)
HitFields(x, y) ==
  [hit_location_x |-> x.v, hit_location_y |-> y.v,
   hit_sector |-> GetSpraySector(SprayAngle(x, y)),
   hit_distance |-> HitDistance(x, y),
   spray_angle |-> SprayAngle(x, y)]

\* _extract_hit_data, lines 231-264: [tag |-> "raise"], [tag |-> "none"] (the
\* function returns None) or [tag |-> "row", row |-> the hit fields]
ExtractHitData(e) ==
  CASE e.hitdata = "null" -> [tag |-> "raise"]
    [] e.hitdata = "absent" -> [tag |-> "none"]
    [] e.coordinates = "null" -> [tag |-> "raise"]
    [] e.coordinates = "absent" -> [tag |-> "none"]
    [] CoordMissing(e.coordx, e.coordy) -> [tag |-> "none"]
    [] e.coordx.t = "str" \/ e.coordy.t = "str" -> [tag |-> "raise"]
    [] OTHER -> [tag |-> "row", row |-> HitFields(e.coordx, e.coordy)]

\* playsbyinning: per inning, the team ids under hits.home ("None": no id)
PlaysByInning ==
  { <<>>, << <<>> >>, << <<"None">> >>, << <<"None", "147">> >>,
    << <<"None">>, <<"147">> >> }

RECURSIVE FirstId(_)
FirstId(teams) ==
  IF teams = <<>> THEN "None"
  ELSE IF Head(teams) # "None" THEN Head(teams) ELSE FirstId(Tail(teams))

\* _extract_home_team_id, lines 178-184
RECURSIVE ExtractHomeTeamId(_)
ExtractHomeTeamId(pbi) ==
  IF pbi = <<>> THEN "None"
  ELSE IF FirstId(Head(pbi)) # "None" THEN FirstId(Head(pbi))
       ELSE ExtractHomeTeamId(Tail(pbi))

\* a play: its about, result and matchup sections are all there ("dict"), all
\* missing ("absent"), or about is null ("null")
PlayKinds == {"dict", "absent", "null"}

\* _extract_play_constants, lines 198-217, for play number n of the file
ExtractPlayConstants(kind, n, home) ==
  IF kind = "dict"
  THEN [play |-> "dict", start_time |-> "t0", end_time |-> "t1", home_team |-> home,
        half_inning |-> "top", inning |-> "1", at_bat_index |-> JNum(n - 1),
        outcome |-> "single", description |-> "text",
        batter_id |-> "10", batter_hand |-> "R", batter_name |-> "batter",
        pitcher_id |-> "20", pitcher_hand |-> "L", pitcher_name |-> "pitcher"]
  ELSE [play |-> "absent", start_time |-> "", end_time |-> "", home_team |-> home,
        half_inning |-> "", inning |-> "", at_bat_index |-> JStr,
        outcome |-> "", description |-> "",
        batter_id |-> "None", batter_hand |-> "None", batter_name |-> "None",
        pitcher_id |-> "None", pitcher_hand |-> "None", pitcher_name |-> "None"]

\* the constants of the first play of the file are merged into every row
FullRow_Mut(c, h, e) ==
  [src |-> [file |-> fileNo, play |-> playNo, event |-> e]] @@ h
    @@ ExtractPlayConstants(c.play, 1, homeId)

\* full_row = {**constants, **hit_data}, line 164; src is where the row came from
FullRow(c, h, e) ==
  [src |-> [file |-> fileNo, play |-> playNo, event |-> e]] @@ h @@ c

\* a cache artifact as the pass sees it: st_size and what json.load makes of it:
\* bytes that are no JSON ("garbage"), a document without plays ("noplays") or a
\* document with plays ("plays", its plays and events drawn as the loops read them)
Artifact(size, content) == [size |-> size, content |-> content]

CacheArtifacts ==
  { Artifact(MIN_FILE_SIZE - 1, "plays"), Artifact(MIN_FILE_SIZE, "plays"),
    Artifact(MIN_FILE_SIZE, "garbage"), Artifact(MIN_FILE_SIZE + 1, "noplays") }

\* the season directories explored: at most MaxFiles artifacts
CacheDirs == UNION { [1..n -> CacheArtifacts] : n \in 0..MaxFiles }

\* the write mode truncates the artifact
ReadArtifact_Mut(dir, k) == [dir EXCEPT ![k] = Artifact(0, "garbage")]

\* filepath.stat() (line 136), open(filepath, "r") and json.load (lines 140-141)
\* read the artifact; the directory they leave is the directory they found
ReadArtifact(dir, k) == dir

InitCompile ==
  /\ folder \in {"missing", "file", "dir"}
  /\ cacheDir \in CacheDirs
  /\ (folder # "dir" => cacheDir = <<>>)
  /\ nFiles = Len(cacheDir)
  /\ qualifying = [k \in 1..Len(cacheDir) |-> 0]
  /\ cpc = "start"
  /\ fileNo = 0
  /\ playNo = 0
  /\ homeId = "None"
  /\ constants = NoConstants
  /\ data = <<>>
  /\ nEvents = 0
  /\ nPlays = 0
  /\ nNotInPlay = 0
  /\ nNoCoords = 0
  /\ failedFiles = {}
  /\ IdleFetch
  /\ IdleLoad
  /\ IdleCache

\* compile_play_events, lines 44-60
CompileStart ==
  /\ cpc = "start"
  /\ cpc' = CASE folder = "missing" -> "no_folder"
              [] folder = "file"    -> "not_dir"
              [] nFiles = 0         -> "no_files"
              [] OTHER              -> "next"
  /\ UNCHANGED <<folder, nFiles, fileNo, playNo, homeId, constants, data,
                 nEvents, nPlays, nNotInPlay, nNoCoords, failedFiles, cacheDir, qualifying>>
  /\ UNCHANGED <<fetchVars, loadVars, cacheVars>>

\* _process_game_file is left, by return or by an exception: its locals are gone
Leave ==
  /\ playNo' = 0
  /\ homeId' = "None"
  /\ constants' = NoConstants
  /\ cpc' = "next"

\* except Exception: logger.warning(...); continue   (lines 65-67)
FileFails ==
  /\ failedFiles' = failedFiles \cup {fileNo}
  /\ Leave

\* the comparison is off by one
TooSmall_Mut(size) == size < MIN_FILE_SIZE - 1

\* filepath.stat().st_size < MIN_FILE_SIZE, line 136
TooSmall(size) == size < MIN_FILE_SIZE

\* the for loop takes the next file; _process_game_file, lines 136-150
OpenFile ==
  /\ cpc = "next"
  /\ fileNo < nFiles
  /\ fileNo' = fileNo + 1
  /\ playNo' = 0
  /\ constants' = NoConstants
  /\ \E size \in {cacheDir[fileNo'].size}, content \in {cacheDir[fileNo'].content},
        pbi \in PlaysByInning :
        \/ /\ TooSmall(size)
           /\ cpc' = "next"
           /\ cacheDir' = cacheDir
           /\ UNCHANGED <<failedFiles, homeId>>
        \/ /\ ~TooSmall(size)
           /\ content = "garbage"
           /\ cacheDir' = ReadArtifact(cacheDir, fileNo')
           /\ failedFiles' = failedFiles \cup {fileNo'}
           /\ cpc' = "next"
           /\ UNCHANGED homeId
        \/ /\ ~TooSmall(size)
           /\ content = "noplays"
           /\ cacheDir' = ReadArtifact(cacheDir, fileNo')
           /\ cpc' = "next"
           /\ UNCHANGED <<failedFiles, homeId>>
        \/ /\ ~TooSmall(size)
           /\ content = "plays"
           /\ cacheDir' = ReadArtifact(cacheDir, fileNo')
           /\ homeId' = ExtractHomeTeamId(pbi)
           /\ cpc' = "plays"
           /\ UNCHANGED failedFiles
  /\ UNCHANGED <<folder, nFiles, data, nEvents, nPlays, nNotInPlay, nNoCoords,
                 qualifying>>
  /\ UNCHANGED <<fetchVars, loadVars, cacheVars>>

\* for play in all_plays: lines 152-156
NextPlay ==
  /\ cpc = "plays"
  /\ nPlays < MaxPlays
  /\ nPlays' = nPlays + 1
  /\ \E kind \in PlayKinds :
        \/ /\ kind = "null"
           /\ FileFails
        \/ /\ kind # "null"
           /\ playNo' = playNo + 1
           /\ constants' = ExtractPlayConstants(kind, playNo', homeId)
           /\ cpc' = "events"
           /\ UNCHANGED <<failedFiles, homeId>>
  /\ UNCHANGED <<folder, nFiles, fileNo, data, nEvents, nNotInPlay,
                 nNoCoords, cacheDir, qualifying>>
  /\ UNCHANGED <<fetchVars, loadVars, cacheVars>>

\* for event in play_events: lines 159-165
ProcessEvent ==
  /\ cpc = "events"
  /\ nEvents < MaxEvents
  /\ nEvents' = nEvents + 1
  /\ \E e \in Events :
        /\ qualifying' = [qualifying EXCEPT ![fileNo] = @ + (IF Qualifies(e) THEN 1 ELSE 0)]
        /\ \/ /\ IsInPlay(e) = "raise"
              /\ FileFails
              /\ UNCHANGED <<data, nNotInPlay, nNoCoords>>
           \/ /\ IsInPlay(e) = "false"
              /\ nNotInPlay' = nNotInPlay + 1
              /\ UNCHANGED <<data, nNoCoords, failedFiles, cpc, playNo, homeId, constants>>
           \/ /\ IsInPlay(e) = "true"
              /\ ExtractHitData(e).tag = "raise"
              /\ FileFails
              /\ UNCHANGED <<data, nNotInPlay, nNoCoords>>
           \/ /\ IsInPlay(e) = "true"
              /\ ExtractHitData(e).tag = "none"
              /\ nNoCoords' = nNoCoords + 1
              /\ UNCHANGED <<data, nNotInPlay, failedFiles, cpc, playNo, homeId, constants>>
           \/ /\ IsInPlay(e) = "true"
              /\ ExtractHitData(e).tag = "row"
              /\ data' = Append(data, FullRow(constants, ExtractHitData(e).row, e))
              /\ UNCHANGED <<nNotInPlay, nNoCoords, failedFiles, cpc, playNo, homeId,
                             constants>>
  /\ UNCHANGED <<folder, nFiles, fileNo, nPlays, cacheDir>>
  /\ UNCHANGED <<fetchVars, loadVars, cacheVars>>

\* the events of the play are exhausted
EndPlay ==
  /\ cpc = "events"
  /\ cpc' = "plays"
  /\ UNCHANGED <<folder, nFiles, fileNo, playNo, homeId, constants, data,
                 nEvents, nPlays, nNotInPlay, nNoCoords, failedFiles, cacheDir, qualifying>>
  /\ UNCHANGED <<fetchVars, loadVars, cacheVars>>

\* the plays of the file are exhausted: _process_game_file returns
EndFile ==
  /\ cpc = "plays"
  /\ Leave
  /\ UNCHANGED <<folder, nFiles, fileNo, data, nEvents, nPlays, nNotInPlay,
                 nNoCoords, failedFiles, cacheDir, qualifying>>
  /\ UNCHANGED <<fetchVars, loadVars, cacheVars>>

\* the table is returned without the test of line 69
CompileEnd_Mut ==
  /\ cpc = "next"
  /\ fileNo = nFiles
  /\ cpc' = "returned"
  /\ UNCHANGED <<folder, nFiles, fileNo, playNo, homeId, constants, data,
                 nEvents, nPlays, nNotInPlay, nNoCoords, failedFiles, cacheDir,
                 qualifying>>
  /\ UNCHANGED <<fetchVars, loadVars, cacheVars>>

\* lines 69-75: ValueError on an empty table, else the table is returned
CompileEnd ==
  /\ cpc = "next"
  /\ fileNo = nFiles
  /\ cpc' = IF data = <<>> THEN "no_events" ELSE "returned"
  /\ UNCHANGED <<folder, nFiles, fileNo, playNo, homeId, constants, data,
                 nEvents, nPlays, nNotInPlay, nNoCoords, failedFiles, cacheDir, qualifying>>
  /\ UNCHANGED <<fetchVars, loadVars, cacheVars>>

NextCompile ==
  \/ CompileStart
  \/ OpenFile
  \/ NextPlay
  \/ ProcessEvent
  \/ EndPlay
  \/ EndFile
  \/ CompileEnd

SpecCompile == InitCompile /\ [][NextCompile]_vars

(***************************************************************************)
(* _extract_hit_data as a function of the coordinates of an in-play event  *)
(***************************************************************************)
CoordsX == { HOME_TEAM_COORD_X + 10 * k : k \in (-MaxSteps)..MaxSteps }

CoordsY == { HOME_TEAM_COORD_Y + 10 * k : k \in (-MaxSteps)..MaxSteps }

GeometryInputs ==
  { Ev("dict", "true", "dict", "dict", JNum(x), JNum(y)) : x \in CoordsX, y \in CoordsY }
    \cup { Ev("dict", "true", "dict", "dict", JNull, JNum(HOME_TEAM_COORD_Y)),
           Ev("dict", "true", "dict", "dict", JNum(HOME_TEAM_COORD_X), JAbsent) }

InitGeometry ==
  /\ query \in GeometryInputs
  /\ raced = FALSE
  /\ answer = [tag |-> "pending"]
  /\ IdleFetch
  /\ IdleLoad
  /\ IdleCompile

CallExtractHitData ==
  /\ answer = [tag |-> "pending"]
  /\ answer' = ExtractHitData(query)
  /\ UNCHANGED <<query, raced, fetchVars, loadVars, compVars>>

SpecGeometry == InitGeometry /\ [][CallExtractHitData]_vars

(***************************************************************************)
(* Claims about the compilation pass                                       *)
(***************************************************************************)
\* C10: every Hit Event Record comes from a play event whose in-play flag is
\* true and whose x and y coordinates are both present and non-null; an event
\* read without the flag, or in play without a coordinate, adds no record.
C10_RecordsOnlyForInPlayWithCoords ==
  /\ \A k \in 1..Len(data) : Qualifies(data[k].src.event)
  /\ Len(data) + nNotInPlay + nNoCoords <= nEvents

C10_Witness ==
  /\ cpc = "returned"
  /\ Len(data) = 1
  /\ nNotInPlay + nNoCoords = 1
  /\ nEvents = 2

\* C14: relative to the home-plate reference (125.0, 199.0), coordinates
\* (125, 199) give hit distance 0 and spray angle 0, and coordinates (125, 99)
\* give spray angle 180 degrees and hit distance 100.
C14_GeometryFixedPoints ==
  /\ (answer.tag # "pending" /\ query.coordx = JNum(125) /\ query.coordy = JNum(199))
        => /\ answer.tag = "row"
           /\ answer.row.hit_distance = [whole |-> 0, exact |-> TRUE]
           /\ answer.row.spray_angle = Deg(0, 0)
  /\ (answer.tag # "pending" /\ query.coordx = JNum(125) /\ query.coordy = JNum(99))
        => /\ answer.tag = "row"
           /\ answer.row.hit_distance = [whole |-> 100, exact |-> TRUE]
           /\ answer.row.spray_angle = Deg(180, 180)

C14_Witness ==
  /\ answer.tag # "pending"
  /\ query.coordx = JNum(125)
  /\ query.coordy = JNum(99)
  /\ answer.tag = "row"
  /\ answer.row.spray_angle.lo = 180


\* C11: a file whose extraction raised contributes no Hit Event Record to the
\* table, the records of its earlier plays included, and the pass goes on with
\* the remaining files.
C11_FailedFileSkippedEntirely ==
  /\ \A k \in 1..Len(data) : data[k].src.file \notin failedFiles
  /\ (failedFiles # {} /\ fileNo < nFiles) => cpc \in {"next", "plays", "events"}

\* how compile_play_events ends: one of its four ValueErrors, or the table
CompileOutcomes == {"no_folder", "not_dir", "no_files", "no_events", "returned"}

\* C12: a pass over the files of the season directory that produces no Hit
\* Event Record ends in the empty-result error, and a table that is returned
\* is never empty.
C12_EmptyResultIsError ==
  /\ cpc = "returned" => Len(data) > 0
  /\ (cpc \in CompileOutcomes /\ folder = "dir" /\ nFiles > 0 /\ data = <<>>)
        => cpc = "no_events"

C12_Witness ==
  /\ cpc = "no_events"
  /\ nFiles = 2
  /\ failedFiles = {1}
  /\ nNoCoords = 1
  /\ data = <<>>

\* the files the loop of lines 62-67 is done with
Processed == { k \in 1..nFiles : k < fileNo \/ (k = fileNo /\ cpc \in {"next"} \cup CompileOutcomes) }

RowsOf(k) == { j \in 1..Len(data) : data[j].src.file = k }

\* C13: a file below the 100-byte threshold is treated as empty: it emits no
\* record and raises no error; so a directory of one file below the threshold
\* and one valid file with one play with one in-play event at (150, 175)
\* compiles to exactly one Hit Event Record.
C13_SmallFileIsEmpty ==
  /\ \A k \in 1..fileNo :
        cacheDir[k].size < MIN_FILE_SIZE =>
          /\ RowsOf(k) = {}
          /\ k \notin failedFiles
          /\ qualifying[k] = 0
  /\ \A small, valid \in 1..nFiles :
        ( /\ cpc \in CompileOutcomes
          /\ nFiles = 2
          /\ cacheDir[small].size < MIN_FILE_SIZE
          /\ cacheDir[valid].size >= MIN_FILE_SIZE
          /\ cacheDir[valid].content = "plays"
          /\ valid \notin failedFiles
          /\ nPlays = 1
          /\ nEvents = 1
          /\ qualifying[valid] = 1 )
        => /\ cpc = "returned"
           /\ Len(data) = 1
           /\ data[1].hit_location_x = 150
           /\ data[1].hit_location_y = 175

C13_Witness ==
  /\ cpc = "returned"
  /\ nFiles = 2
  /\ cacheDir[1].size < MIN_FILE_SIZE
  /\ cacheDir[2] = Artifact(MIN_FILE_SIZE, "plays")
  /\ nPlays = 1
  /\ nEvents = 1
  /\ Len(data) = 1
  /\ data[1].src.event = Ev("dict", "true", "dict", "dict", JNum(150), JNum(175))

\* C15: no step of the compilation pass, whatever its outcome, changes the set
\* of cache artifacts or the content of one of them.
C15_CompileReadsOnly == [][cacheDir' = cacheDir /\ files' = files]_vars

C15_Witness ==
  /\ cpc = "returned"
  /\ failedFiles # {}
  /\ Processed = 1..nFiles
  /\ \E k \in 1..nFiles : cacheDir[k].size < MIN_FILE_SIZE

\* C17: an in-play event with both coordinates emits exactly one record, which
\* merges the constants of its play with the hit fields of the event; for a
\* file processed without error the records added are as many as the in-play
\* events with both coordinates read in it, and they stand in the table in
\* play order, then event order.
C17_OneRecordPerQualifyingEvent ==
  /\ [](\A k \in 1..nFiles :
          /\ Cardinality(RowsOf(k)) <= qualifying[k]
          /\ k \notin failedFiles => Cardinality(RowsOf(k)) = qualifying[k])
  /\ [](\A j, k \in 1..Len(data) :
          j < k => \/ data[j].src.file < data[k].src.file
                   \/ /\ data[j].src.file = data[k].src.file
                      /\ data[j].src.play <= data[k].src.play)
  /\ [][data' # data =>
          /\ Len(data') = Len(data) + 1
          /\ SubSeq(data', 1, Len(data)) = data
          /\ LET r == data'[Len(data')] IN
               /\ r.src.file = fileNo
               /\ r.src.play = playNo
               /\ Qualifies(r.src.event)
               /\ qualifying'[fileNo] = qualifying[fileNo] + 1
               /\ \A f \in DOMAIN constants : r[f] = constants[f]
               /\ r.hit_location_x = r.src.event.coordx.v
               /\ r.hit_location_y = r.src.event.coordy.v
               /\ r.spray_angle = SprayAngle(r.src.event.coordx, r.src.event.coordy)
               /\ r.hit_distance = HitDistance(r.src.event.coordx, r.src.event.coordy)]_vars

C17_Witness ==
  /\ cpc = "returned"
  /\ failedFiles = {}
  /\ Len(data) = 2
  /\ data[1].src.file = data[2].src.file
  /\ data[1].src.play = 1
  /\ data[2].src.play = 2
  /\ data[1].at_bat_index # data[2].at_bat_index

(***************************************************************************)
(* The cache path of lines 170-184 as text, for two rows of one schedule   *)
(* in a run started with the parameter year                                *)
(***************************************************************************)
TeamCodes == {"NYY", "BOS", "NYY_VS_BOS"}

PathRows ==
  [game_pk : {"1", "11", "2", "x"}, date : {"2024-04-01", "2025-03-30", "n/a"},
   home_team : TeamCodes, away_team : TeamCodes]

\* the season directory is named after the year the run was started with
SeasonOf_Mut(row, year) == ToString(year)

\* f"{game_year}", line 177, game_year being the year of the row's date
SeasonOf(row, year) == ToString(YearOf(row.date))

\* f"GAMEPK_{game_id}_{home_team}_VS_{away_team}.json", line 184
ArtifactName(row) ==
  "GAMEPK_" \o ToString(IntOf(row.game_pk)) \o "_" \o row.home_team
     \o "_VS_" \o row.away_team \o ".json"

\* cache_dir / f"{game_year}" / f"GAMEPK_...json": the components of game_file
CachePath(row, year) == <<"cache_dir", SeasonOf(row, year), ArtifactName(row)>>

\* lines 170-184 for one row: the path, or the exception of lines 170-171
DerivePath(row, year) ==
  IF WellFormed(row) THEN CachePath(row, year) ELSE <<"raise">>

InitPath ==
  /\ query \in [year : {2024, 2025}, a : PathRows, b : PathRows]
  /\ raced = FALSE
  /\ answer = [tag |-> "pending"]
  /\ IdleFetch
  /\ IdleLoad
  /\ IdleCompile

DerivePaths ==
  /\ answer.tag = "pending"
  /\ answer' = [tag |-> "paths", a |-> DerivePath(query.a, query.year),
                 b |-> DerivePath(query.b, query.year)]
  /\ UNCHANGED <<query, raced, fetchVars, loadVars, compVars>>

SpecPath == InitPath /\ [][DerivePaths]_vars

(***************************************************************************)
(* Claims about the fetch loop, continued                                  *)
(***************************************************************************)
\* C16: at its turn a well-formed game is skipped (skipped count incremented,
\* no remote call, no cache write, artifact unchanged) if and only if
\* force_refresh is false and its artifact is valid; every other well-formed
\* game goes to the remote call, so with force_refresh on none is skipped and
\* with force_refresh off every game with a missing or not valid artifact is
\* fetched.
C16_SkipRule ==
  [][ /\ (run' = run /\ skipped' # skipped) =>
           /\ pc = "loop" /\ i <= Len(schedule) /\ WellFormed(Row)
           /\ skipped' = skipped + 1
           /\ calls' = calls /\ writes' = writes /\ files' = files
      /\ (pc = "loop" /\ i <= Len(schedule) /\ WellFormed(Row)) =>
           IF ~forceRefresh /\ HasValidArtifact(files[GameFile(Row)])
           THEN skipped' = skipped + 1 /\ pc' = "loop" /\ i' = i + 1
           ELSE skipped' = skipped /\ pc' = "fetch" /\ i' = i
      /\ pc = "fetch" => calls' = calls + 1 ]_vars

C19_NoDataDestroyed ==
  [][ /\ \A p \in Paths :
           /\ files'[p] # files[p] => pc \in {"save", "dump"} /\ p = GameFile(Row)
           /\ files[p].kind = "file" => files'[p].kind = "file"
      /\ (pc = "fetch" /\ pc' = "loop") => files'[GameFile(Row)] = prior
      /\ (pc \in {"fetch", "save", "dump", "sleep"} /\ pc' = "loop" /\ prior.whole) =>
           \/ files'[GameFile(Row)] = prior
           \/ files'[GameFile(Row)].kind = "file" /\ files'[GameFile(Row)].whole ]_vars

====
